---------------------------- MODULE Spec2Model ----------------------------
(***************************************************************************)
(* maskmail: a command-line client for Fastmail masked email addresses.    *)
(*                                                                         *)
(* The model follows src/maskmail.py: the pydantic models (their required  *)
(* fields, aliases, defaults and constraints), the three network functions *)
(* get_session / send_get_request / send_set_request, and the two commands *)
(* `create` and `show`.  The server and the transport are the environment: *)
(* each network call is answered by a timeout, a connection error or an    *)
(* HTTP response whose status and body are drawn from bounded pools.       *)
(*                                                                         *)
(* Values.  JSON documents and the Python values decoded from them are     *)
(* tagged records: Str(s), Bool(b), Null (JSON null / Python None),        *)
(* Arr(<<...>>) and Obj(f), f a function from keys to values.  A pydantic  *)
(* model instance is an Obj keyed by the model's field names; its JSON     *)
(* form is keyed by the aliases.                                           *)
(***************************************************************************)
EXTENDS Naturals, Sequences, FiniteSets, TLC

VARIABLES
    regexEngine,  \* how the installed pydantic-core applies a compiled pattern
    pc,           \* "start" | "discover" | "api" | "done"
    cmd,          \* the command of this invocation and its options
    calls,        \* the network calls issued so far, in order
    outcomes,     \* how each finished network function call ended, in order
    session,      \* the Session get_session returned, or Null
    response,     \* the GetResponse / SetResponse returned, or Null
    stdout,       \* what the command echoed to standard output
    stderr,       \* standard error: echoed messages, an uncaught exception
    exitStatus    \* the process exit status, or Null while running

vars == <<regexEngine, pc, cmd, calls, outcomes, session, response,
          stdout, stderr, exitStatus>>

-----------------------------------------------------------------------------
(* Tagged values *)

Str(s) == [t |-> "str", v |-> s]
Bool(b) == [t |-> "bool", v |-> b]
Arr(q) == [t |-> "arr", v |-> q]
Obj(f) == [t |-> "obj", v |-> f]
Null == [t |-> "null"]
NotJson == [t |-> "notjson"]
EmptyMap == [k \in {} |-> Null]

IsStr(j) == j.t = "str"
IsBool(j) == j.t = "bool"
IsArr(j) == j.t = "arr"
IsObj(j) == j.t = "obj"
IsNull(j) == j.t = "null"
Has(j, k) == IsObj(j) /\ k \in DOMAIN j.v
Without(j, k) == Obj([x \in DOMAIN j.v \ {k} |-> j.v[x]])
With(j, k, val) == Obj([x \in DOMAIN j.v \cup {k} |-> IF x = k THEN val ELSE j.v[x]])

-----------------------------------------------------------------------------
(* Module constants, lines 14-16 *)

SESSION_URL == "https://api.fastmail.com/jmap/session"
CAP_CORE == "urn:ietf:params:jmap:core"
CAP_MASKED_EMAIL == "https://www.fastmail.com/dev/maskedemail"

-----------------------------------------------------------------------------
(* Id: lines 19-24 *)

min_length == 1
max_length == 255

Upper == {"A","B","C","D","E","F","G","H","I","J","K","L","M",
          "N","O","P","Q","R","S","T","U","V","W","X","Y","Z"}
Lower == {"a","b","c","d","e","f","g","h","i","j","k","l","m",
          "n","o","p","q","r","s","t","u","v","w","x","y","z"}
Digit == {"0","1","2","3","4","5","6","7","8","9"}
\* The character class [A-Za-z0-9\-_] of the pattern.
PatternClass == Upper \cup Lower \cup Digit \cup {"-", "_"}

Rep(c, n) == [i \in 1..n |-> c]

\* The characters of the strings that occur where an Id is expected.
CharsOf(s) ==
    CASE s = "" -> <<>>
      [] s = "u1" -> <<"u","1">>
      [] s = "u2" -> <<"u","2">>
      [] s = "m1" -> <<"m","1">>
      [] s = "m2" -> <<"m","2">>
      [] s = "m3" -> <<"m","3">>
      [] s = "other" -> <<"o","t","h","e","r">>
      [] s = "new_masked_email" ->
            <<"n","e","w","_","m","a","s","k","e","d","_","e","m","a","i","l">>
      [] s = "a!b" -> <<"a","!","b">>
      [] s = "!a" -> <<"!","a">>
      [] s = "!!" -> <<"!","!">>
      [] s = "a{255}" -> Rep("a", max_length)
      [] s = "a{256}" -> Rep("a", max_length + 1)

\* re.Pattern.match of [A-Za-z0-9\-_]+ : one or more class characters at the
\* start of the string; what follows them is not looked at.
PatternMatch(cs) == Len(cs) >= 1 /\ cs[1] \in PatternClass

\* re.Pattern.search of [A-Za-z0-9\-_]+ : a class character anywhere.
PatternSearch(cs) == \E i \in 1..Len(cs) : cs[i] \in PatternClass

\* The pattern carries no anchors; pydantic-core applies a compiled pattern
\* with re's match (older releases) or search (newer releases).
PatternOk(cs) ==
    IF regexEngine = "match" THEN PatternMatch(cs) ELSE PatternSearch(cs)

\* StringConstraints(min_length=1, max_length=255, pattern=...) on a str.
Id(j) ==
    /\ IsStr(j)
    /\ Len(CharsOf(j.v)) >= min_length
    /\ Len(CharsOf(j.v)) <= max_length
    /\ PatternOk(CharsOf(j.v))

-----------------------------------------------------------------------------
(* pydantic field handling shared by the models *)

\* A field is read from its alias; with populate_by_name also from its name.
FieldIn(j, aliases, byName, f) ==
    aliases[f] \in DOMAIN j.v \/ (byName /\ f \in DOMAIN j.v)
FieldOf(j, aliases, byName, f) ==
    IF aliases[f] \in DOMAIN j.v THEN j.v[aliases[f]] ELSE j.v[f]

\* The instance built from a validated document: every field under its own
\* name, a field that was not given holding its default.
Build(j, aliases, byName, defaults) ==
    Obj([f \in DOMAIN aliases |->
            IF FieldIn(j, aliases, byName, f)
            THEN FieldOf(j, aliases, byName, f)
            ELSE defaults[f]])

NoDefaults == EmptyMap
StrOrNone(x) == IsNull(x) \/ IsStr(x)
StrList(x) == IsArr(x) /\ \A i \in DOMAIN x.v : IsStr(x.v[i])
StrListOrNone(x) == IsNull(x) \/ StrList(x)
IdList(x) == IsArr(x) /\ \A i \in DOMAIN x.v : Id(x.v[i])
IdListOrNone(x) == IsNull(x) \/ IdList(x)

-----------------------------------------------------------------------------
(* Account, Session: lines 27-43.  XValid(j): validating the document j as *)
(* an X succeeds; X(j): the instance it builds.  A field without a default *)
(* must be given; a field with a default is validated when given.          *)

AccountAliases ==
    [name |-> "name", is_personal |-> "isPersonal",
     is_read_only |-> "isReadOnly",
     account_capabilities |-> "accountCapabilities"]

AccountValid(j) ==
    LET given(f) == FieldIn(j, AccountAliases, FALSE, f)
        value(f) == FieldOf(j, AccountAliases, FALSE, f)
    IN  /\ IsObj(j)
        /\ given("name") /\ IsStr(value("name"))
        /\ given("is_personal") /\ IsBool(value("is_personal"))
        /\ given("is_read_only") /\ IsBool(value("is_read_only"))
        /\ given("account_capabilities") /\ IsObj(value("account_capabilities"))

Account(j) == Build(j, AccountAliases, FALSE, NoDefaults)

SessionAliases ==
    [capabilities |-> "capabilities", accounts |-> "accounts",
     primary_accounts |-> "primaryAccounts", username |-> "username",
     api_url |-> "apiUrl", download_url |-> "downloadUrl",
     upload_url |-> "uploadUrl", event_source_url |-> "eventSourceUrl",
     state |-> "state"]

\* dict[Id, Account]
AccountsValid(x) ==
    IsObj(x) /\ \A k \in DOMAIN x.v : Id(Str(k)) /\ AccountValid(x.v[k])
\* dict[str, Id]
PrimaryAccountsValid(x) ==
    IsObj(x) /\ \A k \in DOMAIN x.v : Id(x.v[k])

SessionValid(j) ==
    LET given(f) == FieldIn(j, SessionAliases, FALSE, f)
        value(f) == FieldOf(j, SessionAliases, FALSE, f)
    IN  /\ IsObj(j)
        /\ given("capabilities") /\ IsObj(value("capabilities"))
        /\ given("accounts") /\ AccountsValid(value("accounts"))
        /\ given("primary_accounts")
        /\ PrimaryAccountsValid(value("primary_accounts"))
        /\ given("username") /\ IsStr(value("username"))
        /\ given("api_url") /\ IsStr(value("api_url"))
        /\ given("download_url") /\ IsStr(value("download_url"))
        /\ given("upload_url") /\ IsStr(value("upload_url"))
        /\ given("event_source_url") /\ IsStr(value("event_source_url"))
        /\ given("state") /\ IsStr(value("state"))

Session(j) ==
    LET b == Build(j, SessionAliases, FALSE, NoDefaults)
        accounts == b.v.accounts.v
    IN  With(b, "accounts", Obj([k \in DOMAIN accounts |-> Account(accounts[k])]))

-----------------------------------------------------------------------------
(* MaskedEmailState, MaskedEmail: lines 46-65 *)

MaskedEmailState == {"pending", "enabled", "disabled", "deleted"}
PENDING == "pending"

MaskedEmailAliases ==
    [masked_email_id |-> "id", email |-> "email", state |-> "state",
     for_domain |-> "forDomain", description |-> "description",
     last_message_at |-> "lastMessageAt", created_at |-> "createdAt",
     created_by |-> "createdBy", url |-> "url",
     email_prefix |-> "emailPrefix"]

\* The fields declared with a default, and the default of each.
MaskedEmailDefaults ==
    [state |-> Null, for_domain |-> Null, description |-> Null,
     email_prefix |-> Null]

\* The strings of the model that parse as a datetime.
DatetimeStrings == {"2024-01-01T00:00:00Z"}
Datetime(x) == IsStr(x) /\ x.v \in DatetimeStrings
DatetimeOrNone(x) == IsNull(x) \/ Datetime(x)
StateOrNone(x) == IsNull(x) \/ (IsStr(x) /\ x.v \in MaskedEmailState)

MaskedEmailValid(j) ==
    LET given(f) == FieldIn(j, MaskedEmailAliases, TRUE, f)
        value(f) == FieldOf(j, MaskedEmailAliases, TRUE, f)
    IN  /\ IsObj(j)
        /\ given("masked_email_id") /\ IsStr(value("masked_email_id"))
        /\ given("email") /\ IsStr(value("email"))
        /\ given("state") => StateOrNone(value("state"))
        /\ given("for_domain") => StrOrNone(value("for_domain"))
        /\ given("description") => StrOrNone(value("description"))
        /\ given("last_message_at") /\ DatetimeOrNone(value("last_message_at"))
        /\ given("created_at") /\ Datetime(value("created_at"))
        /\ given("created_by") /\ IsStr(value("created_by"))
        /\ given("url") /\ StrOrNone(value("url"))
        /\ given("email_prefix") => StrOrNone(value("email_prefix"))

MaskedEmail(j) == Build(j, MaskedEmailAliases, TRUE, MaskedEmailDefaults)

\* MaskedEmail.model_construct(**values): no validation; the given fields are
\* stored, a field that is not given is stored only if it has a default.
model_construct(values) ==
    Obj([f \in DOMAIN values \cup DOMAIN MaskedEmailDefaults |->
            IF f \in DOMAIN values THEN values[f] ELSE MaskedEmailDefaults[f]])

\* model_dump(by_alias=True) of an instance: every stored field, under its
\* alias.
model_dump(inst, aliases) ==
    Obj([a \in {aliases[f] : f \in DOMAIN inst.v} |->
            inst.v[CHOOSE f \in DOMAIN inst.v : aliases[f] = a]])

-----------------------------------------------------------------------------
(* GetRequest, GetResponse, SetRequest, SetError, SetResponse: lines 68-107 *)

GetRequestAliases ==
    [account_id |-> "accountId", ids |-> "ids", properties |-> "properties"]

GetRequestValid(j) ==
    LET given(f) == FieldIn(j, GetRequestAliases, TRUE, f)
        value(f) == FieldOf(j, GetRequestAliases, TRUE, f)
    IN  /\ given("account_id") /\ Id(value("account_id"))
        /\ given("ids") /\ IdListOrNone(value("ids"))
        /\ given("properties") /\ StrListOrNone(value("properties"))

GetRequest(j) == Build(j, GetRequestAliases, TRUE, NoDefaults)

GetResponseAliases ==
    [account_id |-> "accountId", state |-> "state",
     masked_emails |-> "list", not_found |-> "notFound"]

\* list[MaskedEmail]
MaskedEmailList(x) ==
    IsArr(x) /\ \A i \in DOMAIN x.v : MaskedEmailValid(x.v[i])

GetResponseValid(j) ==
    LET given(f) == FieldIn(j, GetResponseAliases, FALSE, f)
        value(f) == FieldOf(j, GetResponseAliases, FALSE, f)
    IN  /\ IsObj(j)
        /\ given("account_id") /\ Id(value("account_id"))
        /\ given("state") /\ IsStr(value("state"))
        /\ given("masked_emails") /\ MaskedEmailList(value("masked_emails"))
        /\ given("not_found") /\ IdList(value("not_found"))

GetResponse(j) ==
    LET b == Build(j, GetResponseAliases, FALSE, NoDefaults)
        list == b.v.masked_emails.v
    IN  With(b, "masked_emails",
             Arr([i \in DOMAIN list |-> MaskedEmail(list[i])]))

SetRequestAliases ==
    [account_id |-> "accountId", if_in_state |-> "ifInState",
     create |-> "create", update |-> "update", destroy |-> "destroy"]

\* dict[Id, MaskedEmail] | None.  A value that already is a MaskedEmail
\* instance is taken as it is: instances are not validated again.
CreateOrNone(x) ==
    IsNull(x) \/ (IsObj(x) /\ \A k \in DOMAIN x.v : Id(Str(k)) /\ IsObj(x.v[k]))
\* dict[Id, list[str]] | None
UpdateOrNone(x) ==
    IsNull(x) \/ (IsObj(x) /\ \A k \in DOMAIN x.v : Id(Str(k)) /\ StrList(x.v[k]))

SetRequestValid(j) ==
    LET given(f) == FieldIn(j, SetRequestAliases, TRUE, f)
        value(f) == FieldOf(j, SetRequestAliases, TRUE, f)
    IN  /\ given("account_id") /\ Id(value("account_id"))
        /\ given("if_in_state") /\ StrOrNone(value("if_in_state"))
        /\ given("create") /\ CreateOrNone(value("create"))
        /\ given("update") /\ UpdateOrNone(value("update"))
        /\ given("destroy") /\ IdListOrNone(value("destroy"))

SetRequest(j) == Build(j, SetRequestAliases, TRUE, NoDefaults)

SetErrorAliases == [error_type |-> "type", description |-> "description"]

\* description: str | None carries no default: the key must be given.
SetErrorValid(j) ==
    LET given(f) == FieldIn(j, SetErrorAliases, FALSE, f)
        value(f) == FieldOf(j, SetErrorAliases, FALSE, f)
    IN  /\ IsObj(j)
        /\ given("error_type") /\ IsStr(value("error_type"))
        /\ given("description") /\ StrOrNone(value("description"))

SetError(j) == Build(j, SetErrorAliases, FALSE, NoDefaults)

SetResponseAliases ==
    [account_id |-> "accountId", old_state |-> "oldState",
     new_state |-> "newState", created |-> "created",
     updated |-> "updated", destroyed |-> "destroyed",
     not_created |-> "notCreated", not_updated |-> "notUpdated",
     not_destroyed |-> "notDestroyed"]

SetResponseDefaults ==
    [not_created |-> Null, not_updated |-> Null, not_destroyed |-> Null]

\* dict[Id, MaskedEmail] | None
CreatedOrNone(x) ==
    IsNull(x)
    \/ (IsObj(x) /\ \A k \in DOMAIN x.v : Id(Str(k)) /\ MaskedEmailValid(x.v[k]))
\* dict[Id, MaskedEmail | None] | None
UpdatedOrNone(x) ==
    IsNull(x)
    \/ (IsObj(x) /\ \A k \in DOMAIN x.v :
            Id(Str(k)) /\ (IsNull(x.v[k]) \/ MaskedEmailValid(x.v[k])))
\* dict[Id, SetError] | None
SetErrorsOrNone(x) ==
    IsNull(x)
    \/ (IsObj(x) /\ \A k \in DOMAIN x.v : Id(Str(k)) /\ SetErrorValid(x.v[k]))

SetResponseValid(j) ==
    LET given(f) == FieldIn(j, SetResponseAliases, FALSE, f)
        value(f) == FieldOf(j, SetResponseAliases, FALSE, f)
    IN  /\ IsObj(j)
        /\ given("account_id") /\ Id(value("account_id"))
        /\ given("old_state") /\ StrOrNone(value("old_state"))
        /\ given("new_state") /\ StrOrNone(value("new_state"))
        /\ given("created") /\ CreatedOrNone(value("created"))
        /\ given("updated") /\ UpdatedOrNone(value("updated"))
        /\ given("destroyed") /\ IdListOrNone(value("destroyed"))
        /\ given("not_created") => SetErrorsOrNone(value("not_created"))
        /\ given("not_updated") => SetErrorsOrNone(value("not_updated"))
        /\ given("not_destroyed") => SetErrorsOrNone(value("not_destroyed"))

MaskedEmails(x) ==
    IF IsNull(x) THEN Null
    ELSE Obj([k \in DOMAIN x.v |->
                IF IsNull(x.v[k]) THEN Null ELSE MaskedEmail(x.v[k])])
SetErrors(x) ==
    IF IsNull(x) THEN Null ELSE Obj([k \in DOMAIN x.v |-> SetError(x.v[k])])

SetResponse(j) ==
    LET b == Build(j, SetResponseAliases, FALSE, SetResponseDefaults)
    IN  Obj([f \in DOMAIN b.v |->
            IF f \in {"created", "updated"} THEN MaskedEmails(b.v[f])
            ELSE IF f \in {"not_created", "not_updated", "not_destroyed"}
            THEN SetErrors(b.v[f])
            ELSE b.v[f]])

-----------------------------------------------------------------------------
(* S, T, Request, Response: lines 110-123.  The type parameters are named  *)
(* by the class they stand for.                                            *)

S == {"GetRequest", "SetRequest"}
T == {"GetResponse", "SetResponse"}

TValid(type, x) ==
    IF type = "GetResponse" THEN GetResponseValid(x) ELSE SetResponseValid(x)
TInstance(type, x) ==
    IF type = "GetResponse" THEN GetResponse(x) ELSE SetResponse(x)
SAliases(type) ==
    IF type = "GetRequest" THEN GetRequestAliases ELSE SetRequestAliases

RequestAliases == [using |-> "using", method_calls |-> "methodCalls"]
ResponseAliases ==
    [session_state |-> "sessionState", method_responses |-> "methodResponses"]

\* list[tuple[str, T, str]]: each entry an array of exactly three items.
MethodResponsesValid(x, type) ==
    /\ IsArr(x)
    /\ \A i \in DOMAIN x.v :
        /\ IsArr(x.v[i])
        /\ Len(x.v[i].v) = 3
        /\ IsStr(x.v[i].v[1])
        /\ TValid(type, x.v[i].v[2])
        /\ IsStr(x.v[i].v[3])

ResponseValid(j, type) ==
    LET given(f) == FieldIn(j, ResponseAliases, FALSE, f)
        value(f) == FieldOf(j, ResponseAliases, FALSE, f)
    IN  /\ IsObj(j)
        /\ given("session_state") /\ IsStr(value("session_state"))
        /\ given("method_responses")
        /\ MethodResponsesValid(value("method_responses"), type)

Response(j, type) ==
    LET b == Build(j, ResponseAliases, FALSE, NoDefaults)
        triples == b.v.method_responses.v
    IN  With(b, "method_responses",
             Arr([i \in DOMAIN triples |->
                    Arr(<<triples[i].v[1], TInstance(type, triples[i].v[2]),
                          triples[i].v[3]>>)]))

\* payload.model_dump(by_alias=True) of Request[S]: the nested instances are
\* dumped with their own aliases.
DumpArgument(request, type) ==
    LET d == model_dump(request, SAliases(type))
    IN  IF type = "SetRequest" /\ IsObj(d.v.create)
        THEN With(d, "create",
                  Obj([k \in DOMAIN d.v.create.v |->
                        model_dump(d.v.create.v[k], MaskedEmailAliases)]))
        ELSE d

Request(method, request, type, tag) ==
    model_dump(
        Obj([using |-> Arr(<<Str(CAP_CORE), Str(CAP_MASKED_EMAIL)>>),
             method_calls |->
                Arr(<<Arr(<<Str(method), DumpArgument(request, type),
                           Str(tag)>>)>>)]),
        RequestAliases)

-----------------------------------------------------------------------------
(* The network functions: lines 126-172 *)

make_headers(api_token) ==
    ("Authorization" :> <<"Bearer ", api_token>>)
        @@ ("Content-Type" :> "application/json; charset=utf-8")

\* The HTTP exchanges one requests.get / requests.post performs: one.
requests_get(url, headers, timeout) ==
    <<[verb |-> "GET", url |-> url, headers |-> headers, timeout |-> timeout]>>
\* A transport that sends the request again after the first exchange.
requests_post_retried(url, headers, json, timeout) ==
    LET call == [verb |-> "POST", url |-> url, headers |-> headers,
                 json |-> json, timeout |-> timeout]
    IN  <<call, call>>
requests_post(url, headers, json, timeout) ==
    <<[verb |-> "POST", url |-> url, headers |-> headers, json |-> json,
       timeout |-> timeout]>>

Raise(e) == [exc |-> e]
Return(x) == [exc |-> "None", value |-> x]
Returned(r) == r.exc = "None"

\* response.raise_for_status(): a 4xx or 5xx status raises HTTPError.
RaisesForStatus(status) == status >= 400 /\ status < 600

\* What the transport hands back for a reply: the exception requests.get /
\* requests.post, raise_for_status() or response.json() raises, or the parsed
\* body.
Transport(reply) ==
    IF reply.kind = "timeout" THEN Raise("Timeout")
    ELSE IF reply.kind = "connection_error" THEN Raise("ConnectionError")
    ELSE IF RaisesForStatus(reply.status) THEN Raise("HTTPError")
    ELSE IF reply.body = NotJson THEN Raise("JSONDecodeError")
    ELSE Return(reply.body)

\* Session(**response.json())
get_session(reply) ==
    LET r == Transport(reply)
    IN  IF ~Returned(r) THEN r
        ELSE IF ~IsObj(r.value) THEN Raise("TypeError")
        ELSE IF ~SessionValid(r.value) THEN Raise("ValidationError")
        ELSE Return(Session(r.value))

\* Response[T](**response.json()).method_responses[0][1]
FirstResult(body, type) ==
    IF ~IsObj(body) THEN Raise("TypeError")
    ELSE IF ~ResponseValid(body, type) THEN Raise("ValidationError")
    ELSE LET method_responses == Response(body, type).v.method_responses.v
         IN  IF Len(method_responses) = 0 THEN Raise("IndexError")
             ELSE Return(method_responses[1].v[2])

\* The payload send_get_request posts, and how the call ends for a reply.
GetPayload(request) == Request("MaskedEmail/get", request, "GetRequest", "a")
send_get_request(reply) ==
    LET r == Transport(reply)
    IN  IF ~Returned(r) THEN r ELSE FirstResult(r.value, "GetResponse")

\* The payload send_set_request posts, and how the call ends for a reply.
SetPayload(request) == Request("MaskedEmail/set", request, "SetRequest", "a")
send_set_request(reply) ==
    LET r == Transport(reply)
    IN  IF ~Returned(r) THEN r ELSE FirstResult(r.value, "SetResponse")

-----------------------------------------------------------------------------
(* The environment: command lines, and what the server and the transport   *)
(* may answer.  Bounded pools; the documents are JSON as the server sends   *)
(* it, keyed by the wire names.                                             *)

\* The longest methodResponses list of same-method entries the server sends.
MaxMethodResponses == 2

ApiTokens == {"fmu1-token"}
DefaultTimeout == 5
Domains == {"example.com"}
Descriptions == {"test", ""}
ShowStates == {Null, Str("enabled")}

API_URL == "https://api.fastmail.com/jmap/api/"
TIMESTAMP == "2024-01-01T00:00:00Z"

Absent == [t |-> "absent"]
Put(j, k, val) == IF val = Absent THEN j ELSE With(j, k, val)
OneKey(k, val) == Obj(k :> val)
Strs(q) == Arr([i \in DOMAIN q |-> Str(q[i])])

AccountJson ==
    Obj([name |-> Str("me@fastmail.com"), isPersonal |-> Bool(TRUE),
         isReadOnly |-> Bool(FALSE), accountCapabilities |-> Obj(EmptyMap)])

AccountsPool ==
    {OneKey("u1", AccountJson), Obj(EmptyMap), OneKey("a!b", AccountJson),
     OneKey("!a", AccountJson), OneKey("!!", AccountJson),
     OneKey("u1", Without(AccountJson, "isPersonal")), Null}

PrimaryAccountsPool ==
    {OneKey(CAP_MASKED_EMAIL, Str("u1")),
     OneKey(CAP_MASKED_EMAIL, Str("u2")),
     Obj((CAP_CORE :> Str("u1")) @@ (CAP_MASKED_EMAIL :> Str("u1"))),
     OneKey(CAP_CORE, Str("u1")),
     Obj(EmptyMap),
     OneKey(CAP_MASKED_EMAIL, Str("a!b")),
     OneKey(CAP_MASKED_EMAIL, Str("a{255}")),
     OneKey(CAP_MASKED_EMAIL, Str("a{256}")),
     OneKey(CAP_MASKED_EMAIL, Str("")),
     OneKey(CAP_MASKED_EMAIL, Null)}

SessionJson(accounts, primaryAccounts) ==
    Obj([capabilities |-> Obj((CAP_CORE :> Obj(EmptyMap))
                              @@ (CAP_MASKED_EMAIL :> Obj(EmptyMap))),
         accounts |-> accounts,
         primaryAccounts |-> primaryAccounts,
         username |-> Str("me@fastmail.com"),
         apiUrl |-> Str(API_URL),
         downloadUrl |-> Str("https://www.fastmailusercontent.com/jmap/download/"),
         uploadUrl |-> Str("https://api.fastmail.com/jmap/upload/"),
         eventSourceUrl |-> Str("https://api.fastmail.com/jmap/event/"),
         state |-> Str("s0")])

GoodSession ==
    SessionJson(OneKey("u1", AccountJson), OneKey(CAP_MASKED_EMAIL, Str("u1")))

SessionBodies ==
    {SessionJson(a, p) : a \in AccountsPool, p \in PrimaryAccountsPool}
    \cup {Without(GoodSession, k) : k \in DOMAIN GoodSession.v}
    \cup {With(Without(GoodSession, "apiUrl"), "api_url", Str(API_URL)),
          With(GoodSession, "extra", Str("x")),
          With(GoodSession, "username", Null),
          Arr(<<>>), Null, NotJson}

EmailOf(id) ==
    CASE id = "m1" -> "m1@fastmail.com"
      [] id = "m2" -> "m2@fastmail.com"
      [] OTHER -> "anon@fastmail.com"

MaskedEmailJson(id, state) ==
    Obj([id |-> Str(id), email |-> Str(EmailOf(id)), state |-> Str(state),
         forDomain |-> Str("example.com"), description |-> Str("test"),
         lastMessageAt |-> Null, createdAt |-> Str(TIMESTAMP),
         createdBy |-> Str("maskmail"), url |-> Null])

M1 == MaskedEmailJson("m1", "enabled")
M2 == MaskedEmailJson("m2", "disabled")
New == MaskedEmailJson("m1", "pending")

MaskedEmailLists ==
    {<<>>, <<M1>>, <<M1, M2>>, <<M2, M1>>, <<M1, M1>>,
     <<MaskedEmailJson("", "enabled")>>,
     <<MaskedEmailJson("a!b", "enabled")>>,
     <<MaskedEmailJson("m1", "archived")>>,
     <<Without(M1, "createdAt")>>,
     <<With(M1, "createdAt", Str("yesterday"))>>,
     <<Without(Without(Without(M1, "state"), "forDomain"), "description")>>}

NotFoundLists == {<<>>, <<"m1">>, <<"m3">>, <<"!!">>}

GetResponseJson(list, notFound) ==
    Obj([accountId |-> Str("u1"), state |-> Str("s1"), list |-> Arr(list),
         notFound |-> Strs(notFound)])

GoodGetResponse == GetResponseJson(<<M1, M2>>, <<>>)

GetResponseBodies ==
    {GetResponseJson(l, n) : l \in MaskedEmailLists, n \in NotFoundLists}
    \cup {Without(GoodGetResponse, k) : k \in DOMAIN GoodGetResponse.v}
    \cup {With(GoodGetResponse, "accountId", Str("a!b"))}

ErrorJson ==
    Obj([type |-> Str("rateLimit"), description |-> Str("too many addresses")])
ErrorNoDescription == Obj([type |-> Str("rateLimit")])

CreatedPool ==
    {Null, Obj(EmptyMap), OneKey("new_masked_email", New), OneKey("other", New),
     Obj(("new_masked_email" :> New) @@ ("other" :> M2)),
     OneKey("new_masked_email", Without(New, "email"))}

NotCreatedPool ==
    {Absent, Null, OneKey("new_masked_email", ErrorJson),
     OneKey("new_masked_email", ErrorNoDescription),
     OneKey("new_masked_email", With(ErrorJson, "description", Null)),
     OneKey("other", ErrorJson)}

SetResponseJson(created, notCreated, notUpdated, notDestroyed) ==
    Put(Put(Put(
        Obj([accountId |-> Str("u1"), oldState |-> Str("s1"),
             newState |-> Str("s2"), created |-> created, updated |-> Null,
             destroyed |-> Null]),
        "notCreated", notCreated), "notUpdated", notUpdated),
        "notDestroyed", notDestroyed)

GoodSetResponse ==
    SetResponseJson(OneKey("new_masked_email", New), Null, Null, Null)

SetResponseBodies ==
    {SetResponseJson(c, n, o, o) :
        c \in CreatedPool, n \in NotCreatedPool,
        o \in {Absent, Null, Obj(EmptyMap)}}
    \cup {SetResponseJson(OneKey("new_masked_email", New), Absent, o, Absent) :
            o \in {OneKey("m2", ErrorJson), OneKey("m2", ErrorNoDescription)}}
    \cup {Without(GoodSetResponse, k) : k \in DOMAIN GoodSetResponse.v}

MethodNames == {"MaskedEmail/get", "MaskedEmail/set", "error"}
Tags == {"a", "b"}

Triple(name, result, tag) == Arr(<<Str(name), result, Str(tag)>>)
Envelope(triples) ==
    Obj([sessionState |-> Str("s0"), methodResponses |-> Arr(triples)])

\* The bodies the API endpoint may send for a call of `method` whose
\* well-formed results are `results`, `good` being one of them.
ApiBodies(method, results, good) ==
    {Envelope(<<Triple(method, r, "a")>>) : r \in results}
    \cup {Envelope(<<Triple(n, good, g)>>) : n \in MethodNames, g \in Tags}
    \cup {Envelope([i \in 1..n |-> Triple(method, good, "a")]) :
            n \in 0..MaxMethodResponses}
    \cup {Envelope(<<Triple("error", Obj([type |-> Str("unknownMethod")]), "a")>>),
          Envelope(<<Arr(<<Str(method), good>>)>>),
          Envelope(<<Triple("error", good, "b"), Triple(method, good, "a")>>),
          Without(Envelope(<<Triple(method, good, "a")>>), "sessionState"),
          Without(Envelope(<<>>), "methodResponses"),
          Arr(<<>>), Null, NotJson}

\* What may come back for one network call whose 2xx bodies are `bodies`.
Replies(bodies, good) ==
    {[kind |-> "timeout"], [kind |-> "connection_error"]}
    \cup {[kind |-> "http", status |-> s, body |-> NotJson] : s \in {404, 500}}
    \cup {[kind |-> "http", status |-> 200, body |-> b] : b \in bodies}
    \cup {[kind |-> "http", status |-> 304, body |-> b] : b \in {NotJson, good}}

SessionReplies == Replies(SessionBodies, GoodSession)
GetReplies ==
    Replies(ApiBodies("MaskedEmail/get", GetResponseBodies, GoodGetResponse),
            Envelope(<<Triple("MaskedEmail/get", GoodGetResponse, "a")>>))
SetReplies ==
    Replies(ApiBodies("MaskedEmail/set", SetResponseBodies, GoodSetResponse),
            Envelope(<<Triple("MaskedEmail/set", GoodSetResponse, "a")>>))

-----------------------------------------------------------------------------
(* The commands: lines 193-315 *)

Init ==
    /\ regexEngine \in {"match", "search"}
    /\ pc = "start"
    /\ cmd = Null
    /\ calls = <<>>
    /\ outcomes = <<>>
    /\ session = Null
    /\ response = Null
    /\ stdout = <<>>
    /\ stderr = <<>>
    /\ exitStatus = Null

\* sys.exit(1) after a message on standard error.
Fail(message) ==
    /\ stderr' = Append(stderr, [message |-> message])
    /\ exitStatus' = 1
    /\ pc' = "done"

\* An exception no handler of the command catches: the interpreter prints the
\* traceback and the process ends with status 1.
Crash(exc) ==
    /\ stderr' = Append(stderr, [traceback |-> exc])
    /\ exitStatus' = 1
    /\ pc' = "done"

\* The command returns: the process ends with status 0.
Finish ==
    /\ exitStatus' = 0
    /\ pc' = "done"

Outcome(fn, reply, r) == [fn |-> fn, reply |-> reply, exc |-> r.exc]

\* cli() stores the token and the timeout; the command then calls
\* get_session, which issues the discovery GET.
Start(api_token, timeout) ==
    /\ pc = "start"
    /\ calls' = calls \o requests_get(SESSION_URL, make_headers(api_token),
                                      timeout)
    /\ pc' = "discover"
    /\ UNCHANGED <<regexEngine, outcomes, session, response, stdout, stderr,
                   exitStatus>>

CreateStart ==
    \E api_token \in ApiTokens, domain \in Domains,
       description \in Descriptions :
        /\ Start(api_token, DefaultTimeout)
        /\ cmd' = [name |-> "create", api_token |-> api_token,
                   timeout |-> DefaultTimeout, domain |-> domain,
                   description |-> description]

ShowStart ==
    \E api_token \in ApiTokens, state \in ShowStates, json \in BOOLEAN :
        /\ Start(api_token, DefaultTimeout)
        /\ cmd' = [name |-> "show", api_token |-> api_token,
                   timeout |-> DefaultTimeout, state |-> state, json |-> json]

\* The keyword arguments of SetRequest(...) in create, lines 226-238.
CreateArguments(s, domain, description) ==
    Obj([account_id |-> s.v.primary_accounts.v[CAP_MASKED_EMAIL],
         if_in_state |-> Null,
         create |-> OneKey("new_masked_email",
                           model_construct([state |-> Str(PENDING),
                                            for_domain |-> Str(domain),
                                            description |-> Str(description)])),
         update |-> Null,
         destroy |-> Null])

\* The keyword arguments of GetRequest(...) in show, lines 282-286.
ShowArguments(s) ==
    Obj([account_id |-> s.v.primary_accounts.v[CAP_MASKED_EMAIL],
         ids |-> Null,
         properties |-> Null])

\* Lines 217-241: the answer to the discovery GET; the handlers around
\* get_session, the SetRequest and the call of send_set_request.
CreateDiscovered ==
    /\ pc = "discover"
    /\ cmd.name = "create"
    /\ \E reply \in SessionReplies :
        LET r == get_session(reply)
            arguments == CreateArguments(r.value, cmd.domain, cmd.description)
        IN  /\ outcomes' = Append(outcomes, Outcome("get_session", reply, r))
            /\ session' = IF Returned(r) THEN r.value ELSE session
            /\ IF r.exc = "Timeout"
               THEN Fail("Timed out when querying the session")
                    /\ UNCHANGED calls
               ELSE IF r.exc = "ValidationError"
               THEN Fail("Error validating the session response")
                    /\ UNCHANGED calls
               ELSE IF ~Returned(r)
               THEN Crash(r.exc) /\ UNCHANGED calls
               ELSE IF CAP_MASKED_EMAIL \notin DOMAIN r.value.v.primary_accounts.v
               THEN Crash("KeyError") /\ UNCHANGED calls
               ELSE IF ~SetRequestValid(arguments)
               THEN Crash("ValidationError") /\ UNCHANGED calls
               ELSE /\ calls' = calls \o requests_post(
                                    r.value.v.api_url.v,
                                    make_headers(cmd.api_token),
                                    SetPayload(SetRequest(arguments)),
                                    cmd.timeout)
                    /\ pc' = "api"
                    /\ UNCHANGED <<stderr, exitStatus>>
    /\ UNCHANGED <<regexEngine, cmd, response, stdout>>

\* Lines 273-289: the answer to the discovery GET; the handlers around
\* get_session, the GetRequest and the call of send_get_request.
ShowDiscovered ==
    /\ pc = "discover"
    /\ cmd.name = "show"
    /\ \E reply \in SessionReplies :
        LET r == get_session(reply)
            arguments == ShowArguments(r.value)
        IN  /\ outcomes' = Append(outcomes, Outcome("get_session", reply, r))
            /\ session' = IF Returned(r) THEN r.value ELSE session
            /\ IF r.exc = "Timeout"
               THEN Fail("Timed out when querying the session")
                    /\ UNCHANGED calls
               ELSE IF r.exc = "ValidationError"
               THEN Fail("Error validating the session response")
                    /\ UNCHANGED calls
               ELSE IF ~Returned(r)
               THEN Crash(r.exc) /\ UNCHANGED calls
               ELSE IF CAP_MASKED_EMAIL \notin DOMAIN r.value.v.primary_accounts.v
               THEN Crash("KeyError") /\ UNCHANGED calls
               ELSE IF ~GetRequestValid(arguments)
               THEN Crash("ValidationError") /\ UNCHANGED calls
               ELSE /\ calls' = calls \o requests_post(
                                    r.value.v.api_url.v,
                                    make_headers(cmd.api_token),
                                    GetPayload(GetRequest(arguments)),
                                    cmd.timeout)
                    /\ pc' = "api"
                    /\ UNCHANGED <<stderr, exitStatus>>
    /\ UNCHANGED <<regexEngine, cmd, response, stdout>>

\* `if response.created:` a dict is true when it is not None and not empty.
Truthy(x) == ~IsNull(x) /\ DOMAIN x.v # {}

\* Lines 240-252: the answer to the MaskedEmail/set POST.
CreateReplied ==
    /\ pc = "api"
    /\ cmd.name = "create"
    /\ \E reply \in SetReplies :
        LET r == send_set_request(reply)
        IN  /\ outcomes' = Append(outcomes, Outcome("send_set_request", reply, r))
            /\ response' = IF Returned(r) THEN r.value ELSE response
            /\ IF r.exc = "Timeout"
               THEN Fail("Timed out when attempting to create the masked email")
                    /\ UNCHANGED stdout
               ELSE IF r.exc = "ValidationError"
               THEN Fail("Error validating the masked email creation response")
                    /\ UNCHANGED stdout
               ELSE IF ~Returned(r)
               THEN Crash(r.exc) /\ UNCHANGED stdout
               ELSE IF ~Truthy(r.value.v.created)
               THEN /\ stderr' = Append(stderr,
                                    [message |-> "Error: No address was created"])
                    /\ Finish
                    /\ UNCHANGED stdout
               ELSE IF "new_masked_email" \notin DOMAIN r.value.v.created.v
               THEN Crash("KeyError") /\ UNCHANGED stdout
               ELSE /\ stdout' = Append(stdout,
                            r.value.v.created.v["new_masked_email"].v.email.v)
                    /\ Finish
                    /\ UNCHANGED stderr
    /\ UNCHANGED <<regexEngine, cmd, calls, session>>

\* Lines 301-310: one row per masked email that passes the --state filter.
Rows(masked_emails, state) ==
    LET Shown(m) == IsNull(state) \/ m.v.state = state
        Row(m) == <<m.v.email, m.v.state, m.v.for_domain, m.v.description>>
        kept == SelectSeq(masked_emails, Shown)
    IN  [i \in DOMAIN kept |-> Row(kept[i])]

\* Lines 288-315: the answer to the MaskedEmail/get POST.
ShowReplied ==
    /\ pc = "api"
    /\ cmd.name = "show"
    /\ \E reply \in GetReplies :
        LET r == send_get_request(reply)
        IN  /\ outcomes' = Append(outcomes, Outcome("send_get_request", reply, r))
            /\ response' = IF Returned(r) THEN r.value ELSE response
            /\ IF r.exc = "Timeout"
               THEN Fail("Timed out when attempting to list masked emails")
                    /\ UNCHANGED stdout
               ELSE IF r.exc = "ValidationError"
               THEN Fail("Error validating the masked email listing response")
                    /\ UNCHANGED stdout
               ELSE IF ~Returned(r)
               THEN Crash(r.exc) /\ UNCHANGED stdout
               ELSE /\ stdout' = Append(stdout,
                            [format |-> IF cmd.json THEN "json" ELSE "table",
                             rows |-> Rows(r.value.v.masked_emails.v, cmd.state)])
                    /\ Finish
                    /\ UNCHANGED stderr
    /\ UNCHANGED <<regexEngine, cmd, calls, session>>

Next ==
    \/ CreateStart
    \/ ShowStart
    \/ CreateDiscovered
    \/ ShowDiscovered
    \/ CreateReplied
    \/ ShowReplied

Spec == Init /\ [][Next]_vars

-----------------------------------------------------------------------------
(* Properties *)

Keys(x) == IF IsNull(x) THEN {} ELSE DOMAIN x.v
Items(x) == IF IsNull(x) THEN {} ELSE {x.v[i].v : i \in DOMAIN x.v}
Discovery == outcomes[1]
Api == outcomes[2]
ApiMethod == IF cmd.name = "create" THEN "MaskedEmail/set" ELSE "MaskedEmail/get"
SentCall == calls[2].json.v.methodCalls.v[1]
Crashed(exc) == \E i \in DOMAIN stderr : stderr[i] = [traceback |-> exc]

\* C1: a run issues the discovery GET first and then at most one API POST (of
\* the command's method), the POST only after get_session returned a Session;
\* no call is issued twice; a discovery that ends in a timeout or a validation
\* failure ends the run with exit status 1 and without a POST.
C1_CallSequence ==
    /\ Len(calls) <= 2
    /\ (pc = "start") <=> (calls = <<>>)
    /\ Len(outcomes) <= Len(calls)
    /\ Len(calls) >= 1 =>
        /\ calls[1].verb = "GET"
        /\ calls[1].url = SESSION_URL
    /\ Len(calls) = 2 =>
        /\ calls[2].verb = "POST"
        /\ SentCall.v[1] = Str(ApiMethod)
        /\ Discovery.fn = "get_session"
        /\ Discovery.exc = "None"
        /\ SessionValid(Discovery.reply.body)
        /\ session = Session(Discovery.reply.body)
    /\ (Len(outcomes) >= 1 /\ Discovery.exc \in {"Timeout", "ValidationError"}) =>
        /\ Len(calls) = 1
        /\ pc = "done"
        /\ exitStatus = 1

\* A run that went through discovery and its one API call and ended normally.
C1_Witness == pc = "done" /\ Len(calls) = 2 /\ exitStatus = 0

\* C2: for every SetResponse returned to create, a response whose `created`
\* has no entry for "new_masked_email" is reported as "no address was created"
\* and never crashes; an address is printed only when the entry exists.
C2_NoAddressCreated ==
    (pc = "done" /\ cmd.name = "create" /\ response # Null) =>
        LET created == response.v.created
            entry == "new_masked_email" \in Keys(created)
        IN  /\ ~entry =>
                stderr = <<[message |-> "Error: No address was created"]>>
            /\ ~Crashed("KeyError")
            /\ Len(stdout) > 0 => entry

\* C3: every call of a network function ends as a result, a Timeout (the call
\* timed out), a TransportFailure or a ValidationFailure (a 2xx body of the
\* wrong shape, an empty methodResponses list included), and as nothing else;
\* a timeout is never a validation failure; a failure ends the run.  Every
\* exception of the transport that is not a timeout (an HTTP error status, a
\* failed connection) is taken here as a TransportFailure.
Is2xx(reply) == reply.kind = "http" /\ reply.status >= 200 /\ reply.status < 300
C3_FourOutcomes ==
    \A i \in DOMAIN outcomes :
        LET o == outcomes[i]
        IN  /\ o.exc \in {"None", "Timeout", "HTTPError", "ConnectionError",
                          "ValidationError"}
            /\ (o.exc = "Timeout") <=> (o.reply.kind = "timeout")
            /\ o.exc = "HTTPError" => (o.reply.kind = "http" /\ ~Is2xx(o.reply))
            /\ o.exc = "ConnectionError" => o.reply.kind = "connection_error"
            /\ Is2xx(o.reply) => o.exc \in {"None", "ValidationError"}
            /\ o.exc # "None" =>
                    (pc = "done" /\ exitStatus = 1 /\ Len(outcomes) = i)

\* The whole string is 1 to 255 characters of [A-Za-z0-9_-].
Identifier(s) ==
    LET cs == CharsOf(s)
    IN  /\ Len(cs) >= 1
        /\ Len(cs) <= 255
        /\ \A i \in 1..Len(cs) : cs[i] \in PatternClass

IdStrings ==
    {"", "u1", "u2", "m1", "m2", "m3", "other", "new_masked_email", "a!b",
     "!a", "!!", "a{255}", "a{256}"}

MaskedEmailIds(x) ==
    IF IsNull(x) THEN {}
    ELSE {x.v[k].v.masked_email_id.v : k \in {d \in DOMAIN x.v : ~IsNull(x.v[d])}}

\* The account ids and masked-email ids the client has decoded or sent.
SessionIds ==
    IF session = Null THEN {}
    ELSE Keys(session.v.accounts)
         \cup {session.v.primary_accounts.v[k].v : k \in Keys(session.v.primary_accounts)}
SentIds ==
    IF Len(calls) < 2 THEN {} ELSE {SentCall.v[2].v.accountId.v}
ResponseIds ==
    IF response = Null THEN {}
    ELSE IF cmd.name = "show"
    THEN {response.v.account_id.v}
         \cup MaskedEmailIds(response.v.masked_emails)
         \cup Items(response.v.not_found)
    ELSE {response.v.account_id.v}
         \cup MaskedEmailIds(response.v.created)
         \cup Keys(response.v.updated) \cup MaskedEmailIds(response.v.updated)
         \cup Items(response.v.destroyed)
         \cup Keys(response.v.not_updated) \cup Keys(response.v.not_destroyed)

\* C4: validation accepts a string exactly when the whole string is 1 to 255
\* characters of [A-Za-z0-9_-]; so every account id and masked-email id the
\* client decoded or sent is such a string.
C4_IdentifierValidation ==
    /\ \A s \in IdStrings : Identifier(s) => Id(Str(s))
    /\ \A s \in SessionIds \cup SentIds \cup ResponseIds : Identifier(s)

\* C5: in every SetResponse returned, each key of the request's `create` is in
\* exactly one of created / not_created; likewise update with updated /
\* not_updated and destroy with destroyed / not_destroyed.
Paired(k, done, failed) == (k \in done) # (k \in failed)
C5_SetPairing ==
    (response # Null /\ cmd.name = "create") =>
        LET request == SentCall.v[2].v
            r == response.v
        IN  /\ \A k \in Keys(request.create) :
                    Paired(k, Keys(r.created), Keys(r.not_created))
            /\ \A k \in Keys(request.update) :
                    Paired(k, Keys(r.updated), Keys(r.not_updated))
            /\ \A k \in Items(request.destroy) :
                    Paired(k, Items(r.destroyed), Keys(r.not_destroyed))

\* C6: in every GetResponse returned, no id of not_found is the id of a
\* returned masked email, and with an explicit ids list in the request every id
\* of not_found is in that list.
C6_NotFound ==
    (response # Null /\ cmd.name = "show") =>
        LET request == SentCall.v[2].v
        IN  /\ Items(response.v.not_found)
                    \cap MaskedEmailIds(response.v.masked_emails) = {}
            /\ ~IsNull(request.ids) =>
                    Items(response.v.not_found) \subseteq Items(request.ids)

\* C7: every Session returned has a primary account for the masked-email
\* capability, and that account is one of `accounts`; the lookup the commands
\* make after discovery does not fail.
C7_PrimaryAccount ==
    /\ session # Null =>
        /\ CAP_MASKED_EMAIL \in Keys(session.v.primary_accounts)
        /\ session.v.primary_accounts.v[CAP_MASKED_EMAIL].v
                \in Keys(session.v.accounts)
    /\ Len(calls) < 2 => ~Crashed("KeyError")

\* C8: a result returned by send_get_request / send_set_request is the payload
\* of a response triple with the method name and the tag that were sent.
C8_EnvelopeRoundTrip ==
    (Len(outcomes) = 2 /\ Api.exc = "None") =>
        LET first == Api.reply.body.v.methodResponses.v[1]
        IN  /\ first.v[1] = SentCall.v[1]
            /\ first.v[3] = SentCall.v[3]
            /\ SentCall.v[1] = Str(ApiMethod)
            /\ SentCall.v[3] = Str("a")

\* C9: the object create sends under create["new_masked_email"] has exactly the
\* keys state, forDomain and description.
C9_PartialMaskedEmail ==
    (Len(calls) = 2 /\ cmd.name = "create") =>
        DOMAIN SentCall.v[2].v.create.v["new_masked_email"].v
            = {"state", "forDomain", "description"}

\* A SetResponse document with its optional elements filled in: the three
\* error mappings given (null when they were left out) and every error entry
\* given a description (null when it had none).
WithDescription(e) ==
    IF IsObj(e) /\ "description" \notin DOMAIN e.v
    THEN With(e, "description", Null) ELSE e
WithErrorMappings(p) ==
    IF ~IsObj(p) THEN p
    ELSE Obj([k \in DOMAIN p.v \cup {"notCreated", "notUpdated", "notDestroyed"} |->
            IF k \notin DOMAIN p.v THEN Null
            ELSE IF k \in {"notCreated", "notUpdated", "notDestroyed"} /\ IsObj(p.v[k])
            THEN Obj([e \in DOMAIN p.v[k].v |-> WithDescription(p.v[k].v[e])])
            ELSE p.v[k]])
WithOptionalElements(body) ==
    IF Has(body, "methodResponses") /\ IsArr(body.v.methodResponses)
    THEN LET triples == body.v.methodResponses.v
             Fill(x) == IF IsArr(x) /\ Len(x.v) = 3
                        THEN Arr(<<x.v[1], WithErrorMappings(x.v[2]), x.v[3]>>)
                        ELSE x
         IN  With(body, "methodResponses",
                  Arr([i \in DOMAIN triples |-> Fill(triples[i])]))
    ELSE body

\* C10: decoding a SetResponse does not fail for the absence of an optional
\* element: a body that decodes with notCreated / notUpdated / notDestroyed and
\* every error description given also decodes with any of them left out.
C10_OptionalElements ==
    (Len(outcomes) = 2 /\ Api.fn = "send_set_request"
        /\ Api.exc = "ValidationError") =>
        ~ResponseValid(WithOptionalElements(Api.reply.body), "SetResponse")

=============================================================================
